---- MODULE Spec2Model ----
(***************************************************************************)
(* Model of src/main.py, the Telegram customer support bot: the FAQ        *)
(* matcher (check_faq), the completion client (get_ai_response), the       *)
(* messaging client (send_telegram_message), the message processor         *)
(* (process_message) and the HTTP endpoints (webhook, set_webhook,         *)
(* get_webhook_info, read_root).                                           *)
(*                                                                         *)
(* Python values are tagged records: PyNone, PyInt(n), PyStr(s), PyDict(d).*)
(* A str is a sequence of characters.  The long literals of the source     *)
(* (the FAQ answers, the welcome template, the apology) are written as     *)
(* one-element blocks, since no operation of the program looks inside      *)
(* them; the emoji and bullets of the source are left out of the blocks.   *)
(***************************************************************************)
EXTENDS Integers, Sequences, FiniteSets, Bags, TLC

VARIABLES
    faq,      \* the module-level FAQ_RESPONSES table (insertion-ordered dict)
    call,     \* one direct call of a function: its arguments and its result
    pending,  \* webhook requests suspended at `await request.json()`
    handled,  \* completed webhook invocations, in the order they ran
    outbox,   \* sendMessage posts made to the chat platform, in order
    admin     \* responses of the administrator endpoints, in order

vars == <<faq, call, pending, handled, outbox, admin>>

----------------------------------------------------------------------------
(* Bounds of the model *)

\* longest text, in tokens, given to check_faq directly
MaxTokens == 3
\* webhook deliveries in one run
MaxRequests == 2
\* administrator requests in one run
MaxAdminCalls == 2

----------------------------------------------------------------------------
(* Python values *)

PyNone == [t |-> "None"]
PyInt(n) == [t |-> "int", v |-> n]
PyStr(s) == [t |-> "str", v |-> s]
PyDict(d) == [t |-> "dict", v |-> d]
PyList(l) == [t |-> "list", v |-> l]
\* the value of a key a dict does not have
Missing == [t |-> "missing"]

\* dict.get(key, default)
Get(d, key, default) ==
    IF key \in DOMAIN d.v /\ d.v[key] # Missing THEN d.v[key] ELSE default

\* bool(v): None, 0, "", [] and {} are false
Truthy(v) ==
    CASE v.t = "None" -> FALSE
      [] v.t = "int" -> v.v # 0
      [] v.t = "str" -> v.v # <<>>
      [] v.t = "list" -> v.v # <<>>
      [] v.t = "dict" -> \E k \in DOMAIN v.v : v.v[k] # Missing
      [] OTHER -> TRUE

\* str(v) as an f-string renders it
Format(v) ==
    CASE v.t = "str" -> v.v
      [] v.t = "None" -> <<"N", "o", "n", "e">>
      [] OTHER -> <<"<repr>">>

NoException == "none"

----------------------------------------------------------------------------
(* str operations *)

UpperChars ==
    <<"A", "B", "C", "D", "E", "F", "G", "H", "I", "J", "K", "L", "M",
      "N", "O", "P", "Q", "R", "S", "T", "U", "V", "W", "X", "Y", "Z">>
LowerChars ==
    <<"a", "b", "c", "d", "e", "f", "g", "h", "i", "j", "k", "l", "m",
      "n", "o", "p", "q", "r", "s", "t", "u", "v", "w", "x", "y", "z">>

lower_char(c) ==
    IF \E i \in 1..Len(UpperChars) : UpperChars[i] = c
    THEN LowerChars[CHOOSE i \in 1..Len(UpperChars) : UpperChars[i] = c]
    ELSE c

\* str.lower()
RECURSIVE lower(_)
lower(s) ==
    IF s = <<>> THEN <<>> ELSE <<lower_char(Head(s))>> \o lower(Tail(s))

\* the `in` operator of two strs: sub in s
Contains(sub, s) ==
    \E i \in 0..(Len(s) - Len(sub)) : SubSeq(s, i + 1, i + Len(sub)) = sub

\* str.startswith(prefix)
startswith(s, prefix) ==
    Len(s) >= Len(prefix) /\ SubSeq(s, 1, Len(prefix)) = prefix

IsSpace(c) == c \in {" ", "\n", "\t"}

RECURSIVE lstrip(_)
lstrip(s) ==
    IF s # <<>> /\ IsSpace(Head(s)) THEN lstrip(Tail(s)) ELSE s

RECURSIVE rstrip(_)
rstrip(s) ==
    IF s # <<>> /\ IsSpace(s[Len(s)]) THEN rstrip(SubSeq(s, 1, Len(s) - 1)) ELSE s

\* str.strip()
strip(s) == rstrip(lstrip(s))

----------------------------------------------------------------------------
(* The FAQ table and the FAQ matcher *)

KwHours == <<"h", "o", "u", "r", "s">>
KwLocation == <<"l", "o", "c", "a", "t", "i", "o", "n">>
KwContact == <<"c", "o", "n", "t", "a", "c", "t">>
KwShipping == <<"s", "h", "i", "p", "p", "i", "n", "g">>
KwReturns == <<"r", "e", "t", "u", "r", "n", "s">>
KwPayment == <<"p", "a", "y", "m", "e", "n", "t">>

FAQ_RESPONSES ==
    << [keyword |-> KwHours,
        response |-> <<"Our business hours are Monday to Friday, 9 AM to 6 PM EST. We're closed on weekends and public holidays.">>],
       [keyword |-> KwLocation,
        response |-> <<"We're located at 123 Main Street, Suite 100, New York, NY 10001. You can also reach us online 24/7!">>],
       [keyword |-> KwContact,
        response |-> <<"You can contact us via:\nEmail: support@company.com\nPhone: +1 (555) 123-4567\nThis chat (24/7 AI support)">>],
       [keyword |-> KwShipping,
        response |-> <<"We offer free shipping on orders over $50. Standard shipping takes 3-5 business days, and express shipping takes 1-2 business days.">>],
       [keyword |-> KwReturns,
        response |-> <<"We accept returns within 30 days of purchase. Items must be unused and in original packaging. Contact us to initiate a return.">>],
       [keyword |-> KwPayment,
        response |-> <<"We accept all major credit cards, PayPal, Apple Pay, and Google Pay. All transactions are secure and encrypted.">>] >>

\* the items of the table from the i-th on, tried in insertion order
RECURSIVE faq_loop(_, _, _)
faq_loop(table, message_lower, i) ==
    IF i > Len(table) THEN PyNone
    ELSE IF Contains(table[i].keyword, message_lower)
         THEN PyStr(table[i].response)
         ELSE faq_loop(table, message_lower, i + 1)

\* faulty variant: the keyword is looked for in the text as typed
check_faq_case_sensitive(message_text) ==
    faq_loop(faq, message_text, 1)

\* position of the leftmost occurrence of sub in s (0 when there is none)
Find(sub, s) ==
    IF Contains(sub, s)
    THEN 1 + CHOOSE i \in 0..(Len(s) - Len(sub)) :
             /\ SubSeq(s, i + 1, i + Len(sub)) = sub
             /\ \A j \in 0..(i - 1) : SubSeq(s, j + 1, j + Len(sub)) # sub
    ELSE 0

\* faulty variant: the keyword that occurs leftmost in the text wins
check_faq_leftmost(message_text) ==
    LET low == lower(message_text)
        hits == {i \in 1..Len(faq) : Contains(faq[i].keyword, low)}
    IN  IF hits = {} THEN PyNone
        ELSE PyStr(faq[CHOOSE i \in hits :
                 \A j \in hits : Find(faq[i].keyword, low) <= Find(faq[j].keyword, low)].response)

check_faq(message_text) ==
    LET message_lower == lower(message_text)
    IN  faq_loop(faq, message_lower, 1)

----------------------------------------------------------------------------
(* Texts *)

TokStart == <<"/", "s", "t", "a", "r", "t">>

\* the pieces the texts given to check_faq are made of
Tokens ==
    { KwHours, <<"H", "O", "U", "R", "S">>, <<"h", "o", "u", "r">>, <<"s">>,
      <<"L", "o", "c", "a", "t", "i", "o", "n">>, KwContact,
      <<"s", "h", "i", "P", "P", "i", "n", "g">>, <<"R", "e", "t", "u", "r", "n", "s">>,
      KwPayment, <<" ">>, <<"?">>, TokStart }

RECURSIVE TextsOf(_)
TextsOf(n) ==
    IF n = 0 THEN {<<>>}
    ELSE LET shorter == TextsOf(n - 1)
         IN  shorter \cup {s \o tok : s \in shorter, tok \in Tokens}

Texts == TextsOf(MaxTokens)

Idle == [fn |-> "none"]

----------------------------------------------------------------------------
(* The completion client *)

APOLOGY ==
    <<"I apologize, but I'm having trouble processing your request right now. Please try again in a moment or contact our support team directly.">>

\* what client.chat.completions.create does: it raises, or it returns a
\* response whose choices each carry a message content (a str or None)
Raises(exc) == [kind |-> "raises", exc |-> exc]
Response(choices) == [kind |-> "response", choices |-> choices]

\* openai.APIConnectionError, APITimeoutError (transport), RateLimitError,
\* InternalServerError (provider side)
ProviderErrors ==
    {"APIConnectionError", "APITimeoutError", "RateLimitError", "InternalServerError"}

\* the exception classes of the model; all derive from Exception
ExceptionClasses ==
    ProviderErrors \cup {"AttributeError", "IndexError", "JSONDecodeError",
                         "ConnectionError", "Timeout", "HTTPError"}

AIOutcomes ==
    { Response(<<PyStr(<<" ", "Happy to help with your order!", "\n">>)>>),
      Response(<<PyStr(<<>>)>>),
      Response(<<>>),
      Response(<<PyNone>>) }
    \cup {Raises(e) : e \in ProviderErrors}

\* lines 74-96: the body of the try block
ai_try(user_message, outcome) ==
    IF outcome.kind = "raises"
    THEN [raised |-> outcome.exc, value |-> PyNone]
    ELSE IF outcome.choices = <<>>
    THEN [raised |-> "IndexError", value |-> PyNone]
    ELSE IF outcome.choices[1].t # "str"
    THEN [raised |-> "AttributeError", value |-> PyNone]
    ELSE [raised |-> NoException, value |-> PyStr(strip(outcome.choices[1].v))]

\* faulty variant: only the provider's own errors are caught
get_ai_response_narrow_except(user_message, outcome) ==
    LET r == ai_try(user_message, outcome)
    IN  IF r.raised \in ProviderErrors
        THEN [raised |-> NoException, value |-> PyStr(APOLOGY)]
        ELSE r

get_ai_response(user_message, outcome) ==
    LET r == ai_try(user_message, outcome)
    IN  IF r.raised \in ExceptionClasses
        THEN [raised |-> NoException, value |-> PyStr(APOLOGY)]
        ELSE r

----------------------------------------------------------------------------
(* The messaging client: send *)

\* what requests.post and raise_for_status do: a 2xx response, or a
\* requests.exceptions.RequestException (HTTPError for a non-2xx status)
RequestExceptions == {"ConnectionError", "Timeout", "HTTPError"}
SendOutcomes == {"200"} \cup RequestExceptions

send_telegram_message(chat_id, text, outcome) ==
    LET ok == outcome \notin RequestExceptions
    IN  [events |-> <<[op |-> "send_telegram_message", chat_id |-> chat_id,
                       text |-> text, parse_mode |-> "HTML", ret |-> ok]>>,
         ret |-> ok]

----------------------------------------------------------------------------
(* The message processor *)

\* lines 142-152: the welcome f-string
welcome_message(user_name) ==
    <<"Hello ">> \o Format(user_name)
    \o <<"! Welcome to our customer support.\n\nI'm here to help you 24/7. You can ask me about:\n- Business hours\n- Location\n- Contact information\n- Shipping & returns\n- Payment options\n- Or anything else!\n\nHow can I assist you today?">>

\* faulty variant: the text is not looked at
missing_chat_id_only(chat_id, message_text) ==
    ~Truthy(chat_id)

\* line 134: `not chat_id or not message_text`
missing_chat_id_or_text(chat_id, message_text) ==
    ~Truthy(chat_id) \/ ~Truthy(message_text)

\* faulty variant: only the bare command is a greeting
is_start_command_exact(message_text) ==
    message_text = TokStart

\* line 141: message_text.startswith("/start")
is_start_command(message_text) ==
    startswith(message_text, TokStart)

FaqEvent(message_text, faq_response) ==
    [op |-> "check_faq", arg |-> message_text, ret |-> faq_response]
AiEvent(message_text, outcome, r) ==
    [op |-> "get_ai_response", arg |-> message_text, outcome |-> outcome,
     raised |-> r.raised, ret |-> r.value]

\* faulty variant: a send that fails is tried once more
reply_retry_send(chat_id, message_text, ai, snd) ==
    LET faq_response == check_faq(message_text)
        r == get_ai_response(message_text, ai)
        text == IF Truthy(faq_response) THEN faq_response.v ELSE r.value.v
        sent == send_telegram_message(chat_id, text, snd)
        first == IF Truthy(faq_response)
                 THEN <<FaqEvent(message_text, faq_response)>>
                 ELSE <<FaqEvent(message_text, faq_response), AiEvent(message_text, ai, r)>>
    IN  [events |-> first \o sent.events \o (IF sent.ret THEN <<>> ELSE sent.events),
         raised |-> NoException]

\* faulty variant: the completion is asked for before the FAQ table is looked at
reply_ai_first(chat_id, message_text, ai, snd) ==
    LET r == get_ai_response(message_text, ai)
        faq_response == check_faq(message_text)
        text == IF Truthy(faq_response) THEN faq_response.v ELSE r.value.v
    IN  [events |-> <<AiEvent(message_text, ai, r), FaqEvent(message_text, faq_response)>>
                    \o send_telegram_message(chat_id, text, snd).events,
         raised |-> NoException]

\* lines 156-165: the FAQ answer, or else the completion, is sent
reply(chat_id, message_text, ai, snd) ==
    LET faq_response == check_faq(message_text)
    IN  IF Truthy(faq_response)
        THEN [events |-> <<FaqEvent(message_text, faq_response)>>
                         \o send_telegram_message(chat_id, faq_response.v, snd).events,
              raised |-> NoException]
        ELSE LET r == get_ai_response(message_text, ai)
             IN  IF r.raised # NoException
                 THEN [events |-> <<FaqEvent(message_text, faq_response),
                                    AiEvent(message_text, ai, r)>>,
                       raised |-> r.raised]
                 ELSE [events |-> <<FaqEvent(message_text, faq_response),
                                    AiEvent(message_text, ai, r)>>
                                  \o send_telegram_message(chat_id, r.value.v, snd).events,
                       raised |-> NoException]

EmptyDict == PyDict([id |-> Missing])
Quiet == [events |-> <<>>, raised |-> NoException]
Fault(exc) == [events |-> <<>>, raised |-> exc]

\* lines 125-165.  `ai` and `snd` are what the completion provider and the
\* chat platform do when they are called.  The result is the sequence of the
\* calls made, in order, and the exception that left the function, if any.
process_message(message, ai, snd) ==
    IF message.t # "dict" THEN Fault("AttributeError")
    ELSE
    LET chat == Get(message, "chat", EmptyDict)
        message_text == Get(message, "text", PyStr(<<>>))
        from == Get(message, "from", EmptyDict)
    IN  IF chat.t # "dict" \/ from.t # "dict" THEN Fault("AttributeError")
        ELSE
        LET chat_id == Get(chat, "id", PyNone)
            user_name == Get(from, "first_name", PyStr(<<"t", "h", "e", "r", "e">>))
        IN  IF missing_chat_id_or_text(chat_id, message_text) THEN Quiet
            ELSE IF message_text.t # "str" THEN Fault("AttributeError")
            ELSE IF is_start_command(message_text.v)
            THEN [events |-> send_telegram_message(chat_id, welcome_message(user_name), snd).events,
                  raised |-> NoException]
            ELSE reply(chat_id, message_text.v, ai, snd)

----------------------------------------------------------------------------
(* Message records *)

ChatValues ==
    {Missing, PyNone}
    \cup {PyDict([id |-> v]) : v \in {Missing, PyNone, PyInt(0), PyInt(7), PyInt(-100)}}

Ana == <<"A", "n", "a">>

FromValues ==
    {Missing, PyNone}
    \cup {PyDict([first_name |-> v]) : v \in {Missing, PyNone, PyStr(Ana)}}

\* texts of one token, and some of two or three
RecordTexts ==
    TextsOf(1)
    \cup { TokStart \o <<" ">> \o KwHours,
           <<"R", "e", "t", "u", "r", "n", "s">> \o <<" ">> \o <<"H", "O", "U", "R", "S">>,
           <<"o", "r", "d", "e", "r">> }

TextValues == {Missing, PyNone, PyInt(5)} \cup {PyStr(s) : s \in RecordTexts}

Messages ==
    {PyList(<<PyInt(1)>>)}
    \cup {PyDict([chat |-> c, text |-> t, from |-> f]) :
             c \in ChatValues, t \in TextValues, f \in FromValues}

----------------------------------------------------------------------------
(* Direct calls of process_message *)

InitProc ==
    /\ faq = FAQ_RESPONSES
    /\ call \in {[fn |-> "process_message", arg |-> m, ai |-> a, snd |-> s,
                  done |-> FALSE, ret |-> Quiet] :
                    m \in Messages, a \in AIOutcomes, s \in SendOutcomes}
    /\ pending = EmptyBag
    /\ handled = <<>>
    /\ outbox = <<>>
    /\ admin = <<>>

CallProcessMessage ==
    /\ call.fn = "process_message"
    /\ ~call.done
    /\ LET r == process_message(call.arg, call.ai, call.snd)
       IN  /\ call' = [call EXCEPT !.done = TRUE, !.ret = r]
           /\ outbox' = outbox \o SelectSeq(r.events, LAMBDA e : e.op = "send_telegram_message")
    /\ UNCHANGED <<faq, pending, handled, admin>>

NextProc == CallProcessMessage

SpecProc == InitProc /\ [][NextProc]_vars

----------------------------------------------------------------------------
(* Direct calls of check_faq *)

InitFaq ==
    /\ faq = FAQ_RESPONSES
    /\ call \in {[fn |-> "check_faq", arg |-> s, done |-> FALSE, ret |-> PyNone] : s \in Texts}
    /\ pending = EmptyBag
    /\ handled = <<>>
    /\ outbox = <<>>
    /\ admin = <<>>

CallCheckFaq ==
    /\ call.fn = "check_faq"
    /\ ~call.done
    /\ call' = [call EXCEPT !.done = TRUE, !.ret = check_faq(call.arg)]
    /\ UNCHANGED <<faq, pending, handled, outbox, admin>>

NextFaq == CallCheckFaq

SpecFaq == InitFaq /\ [][NextFaq]_vars

----------------------------------------------------------------------------
(* The webhook receiver *)

\* a body request.json() cannot parse
InvalidJson == [t |-> "invalid-json"]
Update(update_id, message) ==
    PyDict([update_id |-> PyInt(update_id), message |-> message])

\* lines 214-226: the body of the try block
webhook_try(body, ai, snd) ==
    IF body = InvalidJson THEN Fault("JSONDecodeError")
    ELSE
    LET update_data == body
    IN  IF update_data.t # "dict" THEN Fault("AttributeError")
        ELSE
        LET message == Get(update_data, "message", PyNone)
        IN  IF Truthy(message) THEN process_message(message, ai, snd) ELSE Quiet

\* what the handler leaves to the framework: the payload it returned, or the
\* exception that left it (answered with a 500)
Returned(payload, events) ==
    [http |-> 200, response |-> payload, raised |-> NoException, events |-> events]
Escaped(exc, events) ==
    [http |-> 500, response |-> PyNone, raised |-> exc, events |-> events]

\* faulty variant: only a body that does not parse is caught
webhook_catch_parse_only(body, ai, snd) ==
    LET r == webhook_try(body, ai, snd)
    IN  IF r.raised = NoException THEN Returned([status |-> "ok"], r.events)
        ELSE IF r.raised = "JSONDecodeError"
        THEN Returned([status |-> "error", message |-> r.raised], r.events)
        ELSE Escaped(r.raised, r.events)

\* faulty variant: an update identifier seen before is acknowledged and not processed
webhook_dedup(body, ai, snd) ==
    LET r == webhook_try(body, ai, snd)
        seen == \E i \in 1..Len(handled) :
                    /\ handled[i].body # InvalidJson /\ body # InvalidJson
                    /\ handled[i].body.t = "dict" /\ body.t = "dict"
                    /\ handled[i].body.v.update_id = body.v.update_id
    IN  IF seen THEN Returned([status |-> "ok"], <<>>)
        ELSE IF r.raised = NoException THEN Returned([status |-> "ok"], r.events)
        ELSE Returned([status |-> "error", message |-> r.raised], r.events)

\* lines 207-231
webhook(body, ai, snd) ==
    LET r == webhook_try(body, ai, snd)
    IN  IF r.raised = NoException THEN Returned([status |-> "ok"], r.events)
        ELSE IF r.raised \in ExceptionClasses
        THEN Returned([status |-> "error", message |-> r.raised], r.events)
        ELSE Escaped(r.raised, r.events)

Record(chat_id, text, from) ==
    PyDict([chat |-> PyDict([id |-> chat_id]), text |-> text, from |-> from])

FromAna == PyDict([first_name |-> PyStr(Ana)])
Order == <<"o", "r", "d", "e", "r">>

\* the bodies the platform, or anyone else, posts to /webhook
Bodies ==
    { InvalidJson,
      PyList(<<>>),
      Update(1, Missing),
      Update(1, PyStr(<<"h", "i">>)),
      Update(1, Record(PyInt(7), PyStr(TokStart), FromAna)),
      Update(1, Record(PyInt(7), PyStr(<<"H", "O", "U", "R", "S">>), Missing)),
      Update(1, Record(PyInt(-100), PyStr(Order), FromAna)),
      Update(2, Record(PyInt(-100), PyStr(Order), FromAna)),
      Update(1, Record(PyInt(0), PyStr(Order), FromAna)),
      Update(1, Record(PyInt(7), PyStr(<<>>), FromAna)),
      Update(1, Record(PyInt(7), Missing, FromAna)),
      Update(1, Record(PyInt(7), PyInt(5), FromAna)),
      Update(1, Record(PyInt(7), PyStr(Order), PyNone)) }

WebhookAIOutcomes ==
    { Response(<<PyStr(<<" ", "Happy to help with your order!", "\n">>)>>),
      Response(<<>>),
      Raises("APITimeoutError") }

WebhookSendOutcomes == {"200", "Timeout"}

Init ==
    /\ faq = FAQ_RESPONSES
    /\ call = Idle
    /\ pending = EmptyBag
    /\ handled = <<>>
    /\ outbox = <<>>
    /\ admin = <<>>

\* a POST /webhook arrives; the handler is suspended reading the body
DeliverUpdate(body) ==
    /\ BagCardinality(pending) + Len(handled) < MaxRequests
    /\ pending' = pending (+) SetToBag({body})
    /\ UNCHANGED <<faq, call, handled, outbox, admin>>

\* the body is read and the rest of the handler runs; it awaits nothing more,
\* so no other request runs in between
HandleWebhook(body) ==
    /\ BagIn(body, pending)
    /\ \E ai \in WebhookAIOutcomes, snd \in WebhookSendOutcomes :
          LET r == webhook(body, ai, snd)
          IN  /\ handled' = Append(handled, [body |-> body, result |-> r])
              /\ outbox' = outbox \o SelectSeq(r.events, LAMBDA e : e.op = "send_telegram_message")
    /\ pending' = pending (-) SetToBag({body})
    /\ UNCHANGED <<faq, call, admin>>

Next ==
    \/ \E body \in Bodies : DeliverUpdate(body)
    \/ \E body \in Bodies : HandleWebhook(body)

Spec == Init /\ [][Next]_vars

----------------------------------------------------------------------------
(* The administrator endpoints *)

\* what the platform call does: requests raises (ConnectionError or Timeout
\* from the call, HTTPError from raise_for_status), or a 2xx response comes
\* back whose body is a JSON value or does not parse.  response.json() then
\* raises a JSONDecodeError that is a RequestException or only a ValueError,
\* depending on the version of requests installed.
PlatformRaises(exc) == [kind |-> "raises", exc |-> exc]
PlatformReturns(json) == [kind |-> "response", json |-> json]
PlatformReturnsGarbage(is_request_exception) ==
    [kind |-> "garbage", is_request_exception |-> is_request_exception]

WebhookUrl == <<"https://bot.example.com/webhook">>

PlatformOutcomes ==
    {PlatformRaises(e) : e \in RequestExceptions}
    \cup { PlatformReturns(PyDict([result |-> PyDict([url |-> PyStr(WebhookUrl)])])),
           PlatformReturns(PyDict([result |-> Missing])),
           PlatformReturns(PyList(<<>>)) }
    \cup {PlatformReturnsGarbage(b) : b \in BOOLEAN}

\* raise HTTPException(status_code=500, detail=f"{what}: {str(e)}")
HTTPException(what, exc) ==
    [status |-> 500, detail |-> <<what, exc>>, body |-> PyNone]
\* an exception no handler caught: the framework's own 500
Unhandled(exc) ==
    [status |-> 500, detail |-> <<"Internal Server Error">>, body |-> PyNone]
Ok(body) == [status |-> 200, detail |-> <<>>, body |-> body]

\* faulty variant: a failed platform call is logged and answered like a send
set_webhook_swallow(webhook_url, outcome) ==
    IF outcome.kind = "response"
    THEN Ok([success |-> TRUE, message |-> "Webhook set successfully",
             webhook_url |-> webhook_url, telegram_response |-> outcome.json])
    ELSE Ok([success |-> FALSE, message |-> "Failed to set webhook",
             webhook_url |-> webhook_url, telegram_response |-> PyNone])

\* lines 179-204
set_webhook(webhook_url, outcome) ==
    IF outcome.kind = "raises"
    THEN HTTPException("Failed to set webhook: ", outcome.exc)
    ELSE IF outcome.kind = "garbage"
    THEN IF outcome.is_request_exception
         THEN HTTPException("Failed to set webhook: ", "JSONDecodeError")
         ELSE Unhandled("JSONDecodeError")
    ELSE Ok([success |-> TRUE, message |-> "Webhook set successfully",
             webhook_url |-> webhook_url, telegram_response |-> outcome.json])

\* lines 234-253
get_webhook_info(outcome) ==
    IF outcome.kind = "raises"
    THEN HTTPException("Failed to get webhook info: ", outcome.exc)
    ELSE IF outcome.kind = "garbage"
    THEN IF outcome.is_request_exception
         THEN HTTPException("Failed to get webhook info: ", "JSONDecodeError")
         ELSE Unhandled("JSONDecodeError")
    ELSE IF outcome.json.t # "dict" THEN Unhandled("AttributeError")
    ELSE Ok([success |-> TRUE,
             webhook_info |-> Get(outcome.json, "result", PyDict([url |-> Missing]))])

\* lines 169-176
read_root ==
    Ok([status |-> "online", service |-> "Telegram Customer Support Bot",
        version |-> "1.0.0"])

WebhookUrls == {WebhookUrl, <<>>}

SetWebhook ==
    /\ Len(admin) < MaxAdminCalls
    /\ \E webhook_url \in WebhookUrls, outcome \in PlatformOutcomes :
          admin' = Append(admin, [endpoint |-> "set_webhook", outcome |-> outcome,
                                  response |-> set_webhook(webhook_url, outcome)])
    /\ UNCHANGED <<faq, call, pending, handled, outbox>>

GetWebhookInfo ==
    /\ Len(admin) < MaxAdminCalls
    /\ \E outcome \in PlatformOutcomes :
          admin' = Append(admin, [endpoint |-> "get_webhook_info", outcome |-> outcome,
                                  response |-> get_webhook_info(outcome)])
    /\ UNCHANGED <<faq, call, pending, handled, outbox>>

ReadRoot ==
    /\ Len(admin) < MaxAdminCalls
    /\ admin' = Append(admin, [endpoint |-> "read_root", outcome |-> PlatformReturns(PyNone),
                               response |-> read_root])
    /\ UNCHANGED <<faq, call, pending, handled, outbox>>

NextAdmin == SetWebhook \/ GetWebhookInfo \/ ReadRoot

SpecAdmin == Init /\ [][NextAdmin]_vars

----------------------------------------------------------------------------
(* Properties of check_faq, under SpecFaq *)

\* keyword occurs in text, letters compared without regard to case
HasKeyword(keyword, text) ==
    \E i \in 0..(Len(text) - Len(keyword)) :
        \A j \in 1..Len(keyword) : lower_char(text[i + j]) = keyword[j]

FaqDone == call.fn = "check_faq" /\ call.done

\* the places in the table of the keywords the argument of the call contains
FaqHits == {i \in 1..Len(FAQ_RESPONSES) : HasKeyword(FAQ_RESPONSES[i].keyword, call.arg)}

\* C4 as stated: a text that contains a configured keyword, in any case, gets
\* that keyword's configured answer.
C4_Original ==
    FaqDone =>
        \A i \in FaqHits : call.ret = PyStr(FAQ_RESPONSES[i].response)

\* C4 as amended: a text that contains a configured keyword, in any case, gets
\* that keyword's configured answer, or the answer of a keyword earlier in the
\* table that the text contains too.
C4_AnswerOfKeywordOrEarlier ==
    FaqDone =>
        \A i \in FaqHits :
            \/ call.ret = PyStr(FAQ_RESPONSES[i].response)
            \/ \E j \in FaqHits : j < i /\ call.ret = PyStr(FAQ_RESPONSES[j].response)

\* a text with one keyword, not in lower case, got that keyword's answer
C4_Witness ==
    /\ FaqDone
    /\ call.arg # lower(call.arg)
    /\ \E i \in 1..Len(FAQ_RESPONSES) :
          FaqHits = {i} /\ i > 1 /\ call.ret = PyStr(FAQ_RESPONSES[i].response)

\* C5: check_faq returns the answer of the first keyword, in the table's
\* insertion order, that occurs in the lower-cased text, wherever the keywords
\* stand in the text, and returns None exactly when no keyword occurs (so for
\* the empty text).
C5_FirstInTableOrder ==
    FaqDone =>
        /\ (call.ret = PyNone) <=> (FaqHits = {})
        /\ FaqHits # {} =>
              \E i \in FaqHits :
                  /\ \A j \in FaqHits : i <= j
                  /\ call.ret = PyStr(FAQ_RESPONSES[i].response)
        /\ call.arg = <<>> => call.ret = PyNone

\* two keywords occur, the one later in the table first in the text, and the
\* one earlier in the table won
C5_Witness ==
    /\ FaqDone
    /\ \E i, j \in FaqHits :
          /\ i < j
          /\ Find(FAQ_RESPONSES[j].keyword, lower(call.arg))
               < Find(FAQ_RESPONSES[i].keyword, lower(call.arg))
          /\ call.ret = PyStr(FAQ_RESPONSES[i].response)

----------------------------------------------------------------------------
(* Properties of process_message, under SpecProc *)

ProcDone == call.fn = "process_message" /\ call.done

IsSend(e) == e.op = "send_telegram_message"
Sends(events) == SelectSeq(events, IsSend)
CallsOf(events, op) == {i \in 1..Len(events) : events[i].op = op}

\* the record has the key, with a value other than null
HasField(d, key) ==
    d.t = "dict" /\ key \in DOMAIN d.v /\ d.v[key] \notin {Missing, PyNone}

ChatIdPresent(m) == HasField(m, "chat") /\ HasField(m.v.chat, "id")
TextPresent(m) == HasField(m, "text")

\* a message record as the data model types it: an integer chat identifier,
\* a str text, and a sender that is left out or has a str name or none
WellTyped(m) ==
    /\ ChatIdPresent(m) /\ m.v.chat.v.id.t = "int"
    /\ TextPresent(m) /\ m.v.text.t = "str"
    /\ \/ m.v.from = Missing
       \/ /\ m.v.from.t = "dict"
          /\ m.v.from.v.first_name = Missing \/ m.v.from.v.first_name.t = "str"

BeginsWithStart(text) ==
    Len(text) >= Len(TokStart) /\ \A i \in 1..Len(TokStart) : text[i] = TokStart[i]

\* the sender's display name, or the placeholder
DisplayName(m) ==
    IF HasField(m, "from") /\ HasField(m.v.from, "first_name")
    THEN m.v.from.v.first_name.v
    ELSE <<"t", "h", "e", "r", "e">>

\* C1: one invocation of process_message makes at most one send, and a send
\* that fails is not tried again.
C1_AtMostOneSend ==
    ProcDone =>
        /\ Len(Sends(call.ret.events)) <= 1
        /\ Len(outbox) <= 1
        /\ outbox = Sends(call.ret.events)

\* the one send failed and nothing followed it
C1_Witness ==
    /\ ProcDone
    /\ call.snd = "Timeout"
    /\ Len(outbox) = 1
    /\ outbox[1].ret = FALSE
    /\ call.ret.events[Len(call.ret.events)] = outbox[1]

\* C2: when the chat identifier or the text is absent, process_message sends
\* nothing, does not query check_faq and does not call get_ai_response.
C2_AbsentMeansNoEffect ==
    (ProcDone /\ (~ChatIdPresent(call.arg) \/ ~TextPresent(call.arg))) =>
        /\ call.ret.events = <<>>
        /\ outbox = <<>>

\* a record with a chat identifier and no text was dropped
C2_Witness ==
    /\ ProcDone
    /\ ChatIdPresent(call.arg)
    /\ call.arg.v.chat.v.id = PyInt(7)
    /\ call.arg.v.text = Missing
    /\ call.arg.v.from = Missing
    /\ call.ret = Quiet
    /\ outbox = <<>>

\* what C3 says of a call of process_message that is done
GreetedOnce ==
    /\ call.ret.raised = NoException
    /\ Len(call.ret.events) = 1
    /\ IsSend(call.ret.events[1])
    /\ call.ret.events[1].chat_id = call.arg.v.chat.v.id
    /\ call.ret.events[1].text = welcome_message(PyStr(DisplayName(call.arg)))
    /\ Contains(DisplayName(call.arg), call.ret.events[1].text)
    /\ outbox = call.ret.events

\* C3 as stated: every record with a chat identifier whose text begins with
\* "/start" gets exactly one send, the welcome template with the sender's name
\* (or the placeholder), to that chat; check_faq and get_ai_response are not
\* called.
C3_Original ==
    (ProcDone /\ WellTyped(call.arg) /\ BeginsWithStart(call.arg.v.text.v)) =>
        GreetedOnce

\* C3 as amended: the same, for every record whose chat identifier is not 0.
C3_GreetingSentOnce ==
    (ProcDone /\ WellTyped(call.arg) /\ BeginsWithStart(call.arg.v.text.v)
       /\ call.arg.v.chat.v.id # PyInt(0)) =>
        GreetedOnce

\* "/start hours" from Ana: the welcome with "Ana" in it, and no FAQ answer
C3_Witness ==
    /\ ProcDone
    /\ WellTyped(call.arg)
    /\ call.arg.v.text.v = TokStart \o <<" ">> \o KwHours
    /\ call.arg.v.from = PyDict([first_name |-> PyStr(Ana)])
    /\ Len(outbox) = 1
    /\ outbox[1].chat_id = PyInt(7)
    /\ Contains(Ana, outbox[1].text)

\* what C6 says of a call of process_message that is done
FaqThenCompletionThenSend ==
    LET ev == call.ret.events
        text == call.arg.v.text.v
    IN  /\ call.ret.raised = NoException
        /\ Len(ev) >= 2
        /\ ev[1].op = "check_faq" /\ ev[1].arg = text
        /\ CallsOf(ev, "check_faq") = {1}
        /\ IF ev[1].ret # PyNone
           THEN /\ Len(ev) = 2
                /\ IsSend(ev[2])
                /\ ev[2].text = ev[1].ret.v
                /\ ev[2].chat_id = call.arg.v.chat.v.id
                /\ \E i \in 1..Len(FAQ_RESPONSES) : ev[2].text = FAQ_RESPONSES[i].response
           ELSE /\ Len(ev) = 3
                /\ ev[2].op = "get_ai_response" /\ ev[2].arg = text
                /\ IsSend(ev[3])
                /\ ev[3].text = ev[2].ret.v
                /\ ev[3].chat_id = call.arg.v.chat.v.id
        /\ outbox = Sends(ev)

\* C6 as stated: for every record with a chat identifier and a text that does
\* not begin with "/start": check_faq is asked first; its answer, if any, is
\* the one text sent and get_ai_response is not called; if it has none,
\* get_ai_response is called once, after check_faq and before the send, and
\* what it returned is the one text sent.
C6_Original ==
    (ProcDone /\ WellTyped(call.arg) /\ ~BeginsWithStart(call.arg.v.text.v)) =>
        FaqThenCompletionThenSend

\* C6 as amended: the same, for every record whose chat identifier is not 0
\* and whose text is not empty.
C6_FaqThenCompletionThenSend ==
    (ProcDone /\ WellTyped(call.arg) /\ ~BeginsWithStart(call.arg.v.text.v)
       /\ call.arg.v.chat.v.id # PyInt(0) /\ call.arg.v.text.v # <<>>) =>
        FaqThenCompletionThenSend

\* no keyword: the completion was called between the lookup and the send,
\* and its trimmed text was sent
C6_Witness ==
    /\ ProcDone
    /\ WellTyped(call.arg)
    /\ call.arg.v.text.v = <<"o", "r", "d", "e", "r">>
    /\ Len(call.ret.events) = 3
    /\ call.ret.events[1].ret = PyNone
    /\ call.ret.events[2].op = "get_ai_response"
    /\ outbox = <<call.ret.events[3]>>
    /\ outbox[1].text = <<"Happy to help with your order!">>

\* the provider call raised, or its response has no choice or no content
CompletionFailed(outcome) ==
    \/ outcome.kind = "raises"
    \/ outcome.choices = <<>>
    \/ outcome.choices[1] = PyNone

\* C7: get_ai_response returns a str and lets no exception out, whatever the
\* provider call does; when the call fails it returns the apology, which
\* process_message then sends as the reply.
C7_CompletionIsTotal ==
    ProcDone =>
        \A i \in CallsOf(call.ret.events, "get_ai_response") :
            LET e == call.ret.events[i]
            IN  /\ e.raised = NoException
                /\ e.ret.t = "str"
                /\ call.ret.raised = NoException
                /\ i < Len(call.ret.events)
                /\ IsSend(call.ret.events[i + 1])
                /\ call.ret.events[i + 1].text = e.ret.v
                /\ CompletionFailed(e.outcome) => e.ret = PyStr(APOLOGY)

\* a response without choices: the apology was returned and sent
C7_Witness ==
    /\ ProcDone
    /\ call.ai = Response(<<>>)
    /\ Len(call.ret.events) = 3
    /\ call.ret.events[2].op = "get_ai_response"
    /\ call.ret.events[2].ret = PyStr(APOLOGY)
    /\ outbox = <<call.ret.events[3]>>
    /\ outbox[1].text = APOLOGY

----------------------------------------------------------------------------
(* Properties of the webhook receiver, under Spec *)

\* C8: the webhook receiver always answers with status 200 and a payload
\* {status: "ok"} or {status: "error", message}, and lets no exception out:
\* for a body that does not parse, a body of the wrong shape, an update
\* without a message and a fault raised while the message is processed; a
\* send that fails, and nothing else, still gives {status: "ok"}.
C8_AlwaysAcknowledged ==
    \A i \in 1..Len(handled) :
        LET body == handled[i].body
            r == handled[i].result
        IN  /\ r.raised = NoException
            /\ r.http = 200
            /\ \/ r.response = [status |-> "ok"]
               \/ \E exc \in ExceptionClasses : r.response = [status |-> "error", message |-> exc]
            /\ body = InvalidJson => r.response.status = "error"
            /\ (body # InvalidJson /\ body.t # "dict") => r.response.status = "error"
            /\ (body # InvalidJson /\ body.t = "dict" /\ body.v.message = Missing) =>
                  r.response = [status |-> "ok"] /\ r.events = <<>>
            /\ (\E k \in 1..Len(r.events) : IsSend(r.events[k]) /\ ~r.events[k].ret) =>
                  r.response = [status |-> "ok"]

\* a fault while a message was processed was acknowledged as an error, and a
\* reply that could not be delivered as ok
C8_Witness ==
    \E i, j \in 1..Len(handled) :
        /\ handled[i].body = Update(1, Record(PyInt(7), PyInt(5), FromAna))
        /\ handled[i].result.response = [status |-> "error", message |-> "AttributeError"]
        /\ handled[i].result.http = 200
        /\ Len(handled[j].result.events) = 1
        /\ IsSend(handled[j].result.events[1])
        /\ ~handled[j].result.events[1].ret
        /\ handled[j].result.response = [status |-> "ok"]

\* the body is an update with a message record typed as the data model says
CarriesRecord(body) ==
    /\ body # InvalidJson
    /\ body.t = "dict"
    /\ WellTyped(body.v.message)

ChatIdOf(body) == body.v.message.v.chat.v.id

SendsTo(chat_id) == {k \in 1..Len(outbox) : outbox[k].chat_id = chat_id}

ChatIds == {PyInt(0), PyInt(7), PyInt(-100)}

\* C10 as stated: deliveries are processed independently of the earlier ones:
\* each completed delivery of a record with chat identifier and text made one
\* send to its chat, so n deliveries of the same update made n sends; and the
\* FAQ table is as it was at the start.
C10_Original ==
    /\ faq = FAQ_RESPONSES
    /\ \A i \in 1..Len(handled) :
          CarriesRecord(handled[i].body) =>
              /\ Len(Sends(handled[i].result.events)) = 1
              /\ Sends(handled[i].result.events)[1].chat_id = ChatIdOf(handled[i].body)
    /\ \A c \in ChatIds :
          Cardinality(SendsTo(c))
            = Cardinality({i \in 1..Len(handled) :
                             CarriesRecord(handled[i].body) /\ ChatIdOf(handled[i].body) = c})

\* the record's chat identifier is not 0 and its text is not empty
Answerable(body) ==
    /\ CarriesRecord(body)
    /\ ChatIdOf(body) # PyInt(0)
    /\ body.v.message.v.text.v # <<>>

\* C10 as amended: the same, for records whose chat identifier is not 0 and
\* whose text is not empty; every other delivery made no send.
C10_NoStateAcrossRequests ==
    /\ faq = FAQ_RESPONSES
    /\ \A i \in 1..Len(handled) :
          Answerable(handled[i].body) =>
              /\ Len(Sends(handled[i].result.events)) = 1
              /\ Sends(handled[i].result.events)[1].chat_id = ChatIdOf(handled[i].body)
    /\ \A c \in ChatIds :
          Cardinality(SendsTo(c))
            = Cardinality({i \in 1..Len(handled) :
                             Answerable(handled[i].body) /\ ChatIdOf(handled[i].body) = c})
    /\ Len(outbox) = Cardinality({i \in 1..Len(handled) : Answerable(handled[i].body)})

\* the same update was delivered twice and answered twice
C10_Witness ==
    /\ Len(handled) >= 2
    /\ handled[1].body = Update(1, Record(PyInt(-100), PyStr(Order), FromAna))
    /\ handled[2].body = handled[1].body
    /\ Len(outbox) = 2
    /\ outbox[1].chat_id = PyInt(-100)
    /\ outbox[2].chat_id = PyInt(-100)

----------------------------------------------------------------------------
(* Properties of the administrator endpoints, under SpecAdmin *)

\* the platform call itself failed: unreachable, timed out, or a non-2xx status
PlatformCallFailed(outcome) == outcome.kind = "raises"

\* C9: set_webhook and get_webhook_info answer every failure of their
\* platform call with an error status whose detail holds the cause, never
\* with a success payload, and answer {success: true, ...} only when the
\* platform call succeeded.
C9_AdminFailuresSurface ==
    \A i \in 1..Len(admin) :
        admin[i].endpoint \in {"set_webhook", "get_webhook_info"} =>
            LET outcome == admin[i].outcome
                response == admin[i].response
            IN  /\ PlatformCallFailed(outcome) =>
                      /\ response.status = 500
                      /\ response.body = PyNone
                      /\ \E k \in 1..Len(response.detail) : response.detail[k] = outcome.exc
                /\ response.status = 200 =>
                      /\ outcome.kind = "response"
                      /\ response.body.success = TRUE

\* registration met an unreachable platform, inspection a non-2xx status
C9_Witness ==
    \E i, j \in 1..Len(admin) :
        /\ admin[i].endpoint = "set_webhook"
        /\ admin[i].outcome = PlatformRaises("ConnectionError")
        /\ admin[i].response = HTTPException("Failed to set webhook: ", "ConnectionError")
        /\ admin[j].endpoint = "get_webhook_info"
        /\ admin[j].outcome = PlatformRaises("HTTPError")
        /\ admin[j].response.status = 500

====
